---- MODULE Spec2Model ----
(***************************************************************************)
(* Model of assets/queue.js: the username combobox of the review-queue     *)
(* dashboard.  Every event listener and every case of the socket message   *)
(* handler is one action; the functions they call are operators on a       *)
(* record holding the script's globals and the DOM fields it touches.      *)
(*                                                                         *)
(* Encodings.  JavaScript null is the string "null" where the code holds a *)
(* string (old_username) and -1 where it holds an index (current_option).  *)
(* A suggestion is represented by its name; avatar_url is only copied into *)
(* an img element and read by nothing.  The fragment of UpdatePage and the *)
(* clock of update_last_refreshed are opaque.                              *)
(***************************************************************************)
EXTENDS Integers, Sequences, FiniteSets, TLC

\* Bounds of the model.
MaxSuggestions == 2   \* longest suggestions list the server sends
MaxPending == 2       \* most UsernameSuggestions queries in flight

\* User names the server sends, and texts the input can hold.
Names == {"alice", "bob"}
Texts == Names
null == "null"
null_option == -1

\* event.key values delivered to the input's keydown listener.  The Escape
\* key is "Escape" in current browsers and "Esc" in legacy ones; the switch
\* has no case for "Escape", as for the character keys.
Keys == {"ArrowDown", "ArrowUp", "Tab", "Enter", "Esc", "Escape"}

RECURSIVE SeqsUpTo(_)
SeqsUpTo(n) ==
  IF n = 0 THEN {<<>>}
  ELSE LET shorter == SeqsUpTo(n - 1)
       IN shorter \cup {Append(s, x) : s \in {t \in shorter : Len(t) = n - 1}, x \in Names}

SuggestionLists == SeqsUpTo(MaxSuggestions)

VARIABLES
  current_option,     \* queue.js:3
  available_options,  \* queue.js:4, the li elements: [name, ariaSelected]
  old_username,       \* queue.js:5
  input_value,        \* #change-username-input .value
  popup_display,      \* #suggestions-popup .style.display
  popup_innerHTML,    \* #suggestions-popup children: "" or "options"
  main,               \* #main contents: "" or "page"
  refresh_time,       \* #refresh-time .innerText
  focused,            \* document.activeElement is the input
  sent,               \* messages given to socket.send by the last handler
  pending,            \* UsernameSuggestions queries not yet answered, oldest
                      \* first; each is "fresh" or, once a newer query has
                      \* been answered, "stale"
  last,               \* history: the event handled by the last step
  applied             \* history: the suggestions of the last reply that
                      \* was not empty

vars == <<current_option, available_options, old_username, input_value,
          popup_display, popup_innerHTML, main, refresh_time, focused,
          sent, pending, last, applied>>

\* The state a handler starts from; its outbox is empty.
Start ==
  [current_option |-> current_option, available_options |-> available_options,
   old_username |-> old_username, input_value |-> input_value,
   popup_display |-> popup_display, popup_innerHTML |-> popup_innerHTML,
   main |-> main, refresh_time |-> refresh_time, focused |-> focused,
   sent |-> <<>>, pending |-> pending]

\* The state a handler leaves behind.
Finish(s, l) ==
  /\ current_option' = s.current_option
  /\ available_options' = s.available_options
  /\ old_username' = s.old_username
  /\ input_value' = s.input_value
  /\ popup_display' = s.popup_display
  /\ popup_innerHTML' = s.popup_innerHTML
  /\ main' = s.main
  /\ refresh_time' = s.refresh_time
  /\ focused' = s.focused
  /\ sent' = s.sent
  /\ pending' = s.pending
  /\ last' = l
  /\ applied' = IF l.op = "UsernameSuggestions" /\ l.list # <<>>
                THEN l.list
                ELSE applied

\* The record of an event: what arrived (for a suggestions reply, also how
\* its query was ordered against the other replies), and whether an edit
\* session was open and the popup visible when its handler began.
Event(op) ==
  [op |-> op, key |-> "", shift |-> FALSE, name |-> "", list |-> <<>>, order |-> "",
   session |-> old_username # null, open |-> popup_display = "flex",
   highlighted |-> FALSE]

OptionNames(opts) == [i \in 1..Len(opts) |-> opts[i].name]

----
\* queue.js:30-34
update_last_refreshed(s) == [s EXCEPT !.refresh_time = <<"last refresh">>]

\* close_popup that also re-selects the restored name on the server.
close_popup_reselect(s, reset) ==
  LET s1 == IF reset /\ s.old_username # null
            THEN [s EXCEPT !.input_value = s.old_username,
                           !.sent = Append(@, [key |-> "UsernameSelect",
                                               value |-> s.old_username])]
            ELSE s
  IN [s1 EXCEPT !.old_username = null,
                !.popup_display = "none",
                !.popup_innerHTML = ""]

\* close_popup without the null test of line 124.
close_popup_unguarded(s, reset) ==
  LET s1 == IF reset
            THEN [s EXCEPT !.input_value = s.old_username]
            ELSE s
  IN [s1 EXCEPT !.old_username = null,
                !.popup_display = "none",
                !.popup_innerHTML = ""]

\* close_popup without line 133: the popup is emptied but stays displayed.
close_popup_keep_visible(s, reset) ==
  LET s1 == IF reset /\ s.old_username # null
            THEN [s EXCEPT !.input_value = s.old_username]
            ELSE s
  IN [s1 EXCEPT !.old_username = null,
                !.popup_innerHTML = ""]

\* queue.js:123-135
close_popup(s, reset) ==
  LET s1 == IF reset /\ s.old_username # null
            THEN [s EXCEPT !.input_value = s.old_username]
            ELSE s
  IN [s1 EXCEPT !.old_username = null,
                !.popup_display = "none",
                !.popup_innerHTML = ""]

\* set_username that writes the input first and closes with reset = true.
set_username_restore(s, name) ==
  LET s1 == [s EXCEPT !.main = "",
                      !.refresh_time = <<"getting PR data for user", name>>,
                      !.input_value = name]
  IN close_popup(s1, TRUE)

\* queue.js:36-45
set_username(s, name) ==
  LET s1 == close_popup(s, FALSE)
  IN [s1 EXCEPT !.main = "",
                !.refresh_time = <<"getting PR data for user", name>>,
                !.input_value = name]

\* queue.js:47-65
select_username(s, name) ==
  IF name = s.old_username THEN s
  ELSE LET s1 == [s EXCEPT !.main = "",
                           !.refresh_time = <<"getting PR data for user", name>>]
           s2 == close_popup(s1, FALSE)
       IN [s2 EXCEPT !.sent = Append(@, [key |-> "UsernameSelect", value |-> name])]

\* queue.js:88-94 and 98-104: the closures given to changeSelection
callback(s, f) ==
  IF f = "selectNext"
  THEN IF s.current_option = null_option
       THEN [s EXCEPT !.current_option = 0]
       ELSE [s EXCEPT !.current_option = @ + 1]
  ELSE IF s.current_option = null_option
       THEN [s EXCEPT !.current_option = Len(s.available_options) - 1]
       ELSE [s EXCEPT !.current_option = @ - 1]

\* changeSelection without the loop of lines 72-74.
changeSelection_keep_marks(s, f) ==
  IF Len(s.available_options) = 0 THEN s
  ELSE LET n == Len(s.available_options)
           s2 == callback(s, f)
           s3 == IF s2.current_option >= n
                 THEN [s2 EXCEPT !.current_option = @ - n]
                 ELSE IF s2.current_option < 0
                      THEN [s2 EXCEPT !.current_option = @ + n]
                      ELSE s2
       IN [s3 EXCEPT !.available_options[s3.current_option + 1].ariaSelected = "true"]

\* changeSelection that clamps at the last option instead of wrapping.
changeSelection_clamp(s, f) ==
  IF Len(s.available_options) = 0 THEN s
  ELSE LET n == Len(s.available_options)
           s1 == [s EXCEPT !.available_options =
                    [i \in 1..n |-> [@[i] EXCEPT !.ariaSelected = "false"]]]
           s2 == callback(s1, f)
           s3 == IF s2.current_option >= n
                 THEN [s2 EXCEPT !.current_option = n - 1]
                 ELSE IF s2.current_option < 0
                      THEN [s2 EXCEPT !.current_option = @ + n]
                      ELSE s2
       IN [s3 EXCEPT !.available_options[s3.current_option + 1].ariaSelected = "true"]

\* queue.js:67-85.  Indices are 0-based as in the source; the sequence is
\* 1-based.
changeSelection(s, f) ==
  IF Len(s.available_options) = 0 THEN s
  ELSE LET n == Len(s.available_options)
           s1 == [s EXCEPT !.available_options =
                    [i \in 1..n |-> [@[i] EXCEPT !.ariaSelected = "false"]]]
           s2 == callback(s1, f)
           s3 == IF s2.current_option >= n
                 THEN [s2 EXCEPT !.current_option = @ - n]
                 ELSE IF s2.current_option < 0
                      THEN [s2 EXCEPT !.current_option = @ + n]
                      ELSE s2
       IN [s3 EXCEPT !.available_options[s3.current_option + 1].ariaSelected = "true"]

\* queue.js:87-95
selectNext(s) == changeSelection(s, "selectNext")

\* queue.js:97-105
selectPrev(s) == changeSelection(s, "selectPrev")

\* queue.js:169: the click listener of the option at 0-based index i; an
\* element whose construction was cut short has none.
option_click(s, i) ==
  IF s.available_options[i + 1].name = null THEN s
  ELSE select_username(s, s.available_options[i + 1].name)

\* queue.js:107-121
confirmSelect(s, enter_pressed) ==
  LET s1 == [s EXCEPT !.focused = FALSE]
  IN IF enter_pressed THEN select_username(s1, s1.input_value)
     ELSE IF s1.current_option = null_option THEN close_popup(s1, FALSE)
     ELSE option_click(s1, s1.current_option)

\* apply_username_suggestions without line 142.
apply_username_suggestions_keep_option(s, suggestions) ==
  IF Len(suggestions) = 0 THEN s
  ELSE [s EXCEPT !.available_options =
                    [i \in 1..Len(suggestions) |->
                       [name |-> suggestions[i], ariaSelected |-> "false"]],
                 !.popup_display = "flex",
                 !.popup_innerHTML = "options"]

\* apply_username_suggestions without the early return of lines 138-140.
apply_username_suggestions_unguarded(s, suggestions) ==
  [s EXCEPT !.current_option = null_option,
            !.available_options =
               [i \in 1..Len(suggestions) |->
                  [name |-> suggestions[i], ariaSelected |-> "false"]],
            !.popup_display = "flex",
            !.popup_innerHTML = "options"]

\* apply_username_suggestions without lines 143 and 147: the new options
\* come after those of the earlier replies.
apply_username_suggestions_append(s, suggestions) ==
  IF Len(suggestions) = 0 THEN s
  ELSE [s EXCEPT !.current_option = null_option,
                 !.available_options =
                    [i \in 1..Len(@) |-> [@[i] EXCEPT !.ariaSelected = "false"]]
                      \o [i \in 1..Len(suggestions) |->
                            [name |-> suggestions[i], ariaSelected |-> "false"]],
                 !.popup_display = "flex",
                 !.popup_innerHTML = "options"]

\* A variant that puts each new option in front of the earlier ones.
apply_username_suggestions_unshift(s, suggestions) ==
  IF Len(suggestions) = 0 THEN s
  ELSE [s EXCEPT !.current_option = null_option,
                 !.available_options =
                    [i \in 1..Len(suggestions) |->
                       [name |-> suggestions[Len(suggestions) + 1 - i],
                        ariaSelected |-> "false"]],
                 !.popup_display = "flex",
                 !.popup_innerHTML = "options"]

\* queue.js:137-171
apply_username_suggestions(s, suggestions) ==
  IF Len(suggestions) = 0 THEN s
  ELSE [s EXCEPT !.current_option = null_option,
                 !.available_options =
                    [i \in 1..Len(suggestions) |->
                       [name |-> suggestions[i], ariaSelected |-> "false"]],
                 !.popup_display = "flex",
                 !.popup_innerHTML = "options"]

\* queue.js:142-160 for a suggestions array whose entries are those of
\* prefix followed by a JSON null: the entries of prefix are rendered, the
\* li of the null entry is pushed at line 151, and reading
\* i["avatar_url"] at line 160 throws before the li gets a name, a place
\* in the popup or a listener.
apply_username_suggestions_throwing(s, prefix) ==
  [s EXCEPT !.current_option = null_option,
            !.available_options =
               [i \in 1..(Len(prefix) + 1) |->
                  IF i <= Len(prefix)
                  THEN [name |-> prefix[i], ariaSelected |-> "false"]
                  ELSE [name |-> null, ariaSelected |-> "false"]],
            !.popup_display = "flex",
            !.popup_innerHTML = IF prefix = <<>> THEN "" ELSE "options"]

\* queue.js:173-180
ask_suggestions(s) ==
  [s EXCEPT !.sent = Append(@, [key |-> "UsernameSuggestions", value |-> s.input_value]),
            !.pending = Append(@, "fresh")]

\* queue.js:202-206 and 212-216
capture_old_username(s) ==
  IF s.old_username = null THEN [s EXCEPT !.old_username = s.input_value] ELSE s

----
Init ==
  /\ current_option = null_option
  /\ available_options = <<>>
  /\ old_username = null
  /\ input_value \in Texts
  /\ popup_display = "none"
  /\ popup_innerHTML = ""
  /\ main = ""
  /\ refresh_time = <<>>
  /\ focused = FALSE
  /\ sent = <<>>
  /\ pending = <<>>
  /\ last = Event("init")
  /\ applied = <<>>

\* queue.js:12-16
RecvUpdatePage ==
  /\ Finish(update_last_refreshed([Start EXCEPT !.main = "page"]), Event("UpdatePage"))

\* queue.js:17-19
RecvSetUsername ==
  /\ \E name \in Names :
       Finish(set_username(Start, name), [Event("SetUsername") EXCEPT !.name = name])

\* A message handler that drops the reply to a superseded query.
RecvUsernameSuggestions_correlated ==
  /\ pending # <<>>
  /\ \E k \in 1..Len(pending), suggestions \in SuggestionLists :
       LET rest == [i \in 1..(Len(pending) - 1) |->
                      IF i < k THEN "stale" ELSE pending[i + 1]]
           s == [Start EXCEPT !.pending = rest]
       IN Finish(IF pending[k] = "stale" THEN s
                 ELSE apply_username_suggestions(s, suggestions),
                 [Event("UsernameSuggestions") EXCEPT
                    !.list = suggestions,
                    !.order = pending[k],
                    !.highlighted = current_option # null_option])

\* queue.js:20-22.  The server answers any outstanding query with any list;
\* answering query k makes the older outstanding queries stale.
RecvUsernameSuggestions ==
  /\ pending # <<>>
  /\ \E k \in 1..Len(pending), suggestions \in SuggestionLists :
       LET rest == [i \in 1..(Len(pending) - 1) |->
                      IF i < k THEN "stale" ELSE pending[i + 1]]
           s == [Start EXCEPT !.pending = rest]
       IN Finish(apply_username_suggestions(s, suggestions),
                 [Event("UsernameSuggestions") EXCEPT
                    !.list = suggestions,
                    !.order = pending[k],
                    !.highlighted = current_option # null_option])

\* queue.js:191-199
ClickReset ==
  /\ LET s1 == close_popup(Start, FALSE)
         s2 == [s1 EXCEPT !.main = "",
                          !.refresh_time = <<"getting your PR data">>,
                          !.focused = FALSE]
     IN Finish([s2 EXCEPT !.sent = Append(@, [key |-> "ResetUsername", value |-> ""])],
               Event("ClickReset"))

\* queue.js:201-209; the document listener (259-279) finds #change-username
\* above the input and returns.
ClickInput ==
  /\ Len(pending) < MaxPending
  /\ Finish(ask_suggestions(capture_old_username([Start EXCEPT !.focused = TRUE])),
            Event("ClickInput"))

\* queue.js:211-243
KeyDown ==
  /\ focused
  /\ \E key \in Keys, shiftKey \in BOOLEAN :
       /\ shiftKey => key = "Tab"
       /\ LET s == capture_old_username(Start)
              t == CASE key = "ArrowDown" -> selectNext(s)
                     [] key = "ArrowUp" -> selectPrev(s)
                     [] key = "Tab" -> IF shiftKey THEN selectPrev(s) ELSE selectNext(s)
                     [] key = "Enter" -> confirmSelect(s, TRUE)
                     [] key = "Esc" -> close_popup(s, TRUE)
                     [] OTHER -> s
          IN Finish(t, [Event("KeyDown") EXCEPT !.key = key, !.shift = shiftKey])

\* queue.js:245-257
Slash ==
  /\ ~focused
  /\ Finish([Start EXCEPT !.focused = TRUE], Event("Slash"))

\* queue.js:259-279, a click on a node outside #change-username and outside
\* every .username-suggestion
ClickOutside ==
  /\ Finish(close_popup([Start EXCEPT !.focused = FALSE], TRUE), Event("ClickOutside"))

\* queue.js:169, a click on a rendered option; the document listener
\* (259-279) finds .username-suggestion on the target and returns.
ClickOption ==
  /\ popup_display = "flex"
  /\ popup_innerHTML = "options"
  /\ \E i \in 0..(Len(available_options) - 1) :
       /\ available_options[i + 1].name # null
       /\ Finish(option_click([Start EXCEPT !.focused = FALSE], i),
                 [Event("ClickOption") EXCEPT !.name = available_options[i + 1].name])

\* queue.js:281-283, after the browser changed the input's text
Input ==
  /\ focused
  /\ Len(pending) < MaxPending
  /\ \E v \in Texts \ {input_value} :
       Finish(ask_suggestions([Start EXCEPT !.input_value = v]), Event("Input"))

Next ==
  \/ RecvUpdatePage
  \/ RecvSetUsername
  \/ RecvUsernameSuggestions
  \/ ClickReset
  \/ ClickInput
  \/ KeyDown
  \/ Slash
  \/ ClickOutside
  \/ ClickOption
  \/ Input

Spec == Init /\ [][Next]_vars

----
\* Frames outside the protocol of the server.

\* Frames the handler gives up on before it touches anything.
BadFrames == {"unknown key", "not JSON", "suggestions missing"}

\* queue.js:9 (JSON.parse throws), 23-25 (no case matches: logged) and
\* 138 (suggestions is undefined and reading its length throws)
RecvBadFrame ==
  /\ \E kind \in BadFrames :
       Finish(Start, [Event("BadFrame") EXCEPT !.key = kind])

\* queue.js:20-22 with a suggestions array that holds a null after at
\* most MaxSuggestions - 1 well-formed entries
RecvMalformedSuggestions ==
  /\ \E prefix \in {l \in SuggestionLists : Len(l) < MaxSuggestions} :
       Finish(apply_username_suggestions_throwing(Start, prefix),
              [Event("MalformedSuggestions") EXCEPT !.list = prefix])

NextFrames ==
  \/ Next
  \/ RecvBadFrame
  \/ RecvMalformedSuggestions

SpecFrames == Init /\ [][NextFrames]_vars

----
\* confirmSelect called without argument.  No listener of queue.js makes
\* this call; the function is a global of the page and the call is open to
\* the page's markup and to other scripts.

\* queue.js:107-121 with enter_pressed = false
ConfirmSoft ==
  /\ Finish(confirmSelect(Start, FALSE), Event("ConfirmSoft"))

NextSoft ==
  \/ Next
  \/ ConfirmSoft

SpecSoft == Init /\ [][NextSoft]_vars

----
\* The click listener of the document on its own, for click targets at any
\* depth of the page.

\* queue.js:263, the bound of the walk
MaxWalk == 10

\* The deepest click target: the number of nodes between it and the node it
\* is nested in.
MaxDepth == 11

\* A click target is given by the nodes from event.target up to the
\* document, whose parentNode is null.  A node is the form
\* (id "change-username"), an option (class "username-suggestion") or
\* another node.
Path(kind, depth) ==
  [i \in 1..depth |-> "other"]
    \o (IF kind = "none" THEN <<>> ELSE <<kind>>)
    \o <<"document">>

Paths == {Path(kind, depth) : kind \in {"form", "option", "none"}, depth \in 0..MaxDepth}

\* queue.js:267-270
matches(node) == node \in {"form", "option"}

\* A walk that goes on until the document has been passed.
RECURSIVE walk_to_root(_, _, _)
walk_to_root(path, target, ctr) ==
  IF target > Len(path) THEN "close_popup"
  ELSE IF matches(path[target]) THEN "return"
  ELSE walk_to_root(path, target + 1, ctr + 1)

\* queue.js:260-278: the loop from the node at index target with ctr steps
\* done; "return" if it returns at line 271, "close_popup" if it leaves the
\* loop (line 264-266 or ctr = 10) and reaches line 278.
RECURSIVE walk(_, _, _)
walk(path, target, ctr) ==
  IF ctr < MaxWalk
  THEN IF target > Len(path) THEN "close_popup"
       ELSE IF matches(path[target]) THEN "return"
       ELSE walk(path, target + 1, ctr + 1)
  ELSE "close_popup"

\* queue.js:259-279
DocumentClick ==
  /\ \E path \in Paths :
       LET verdict == walk(path, 1, 0)
           s == [Start EXCEPT !.focused = FALSE]
       IN Finish(IF verdict = "return" THEN s ELSE close_popup(s, TRUE),
                 [Event("DocumentClick") EXCEPT !.key = verdict, !.list = path])

NextWalk ==
  \/ ClickInput
  \/ Input
  \/ RecvUsernameSuggestions
  \/ DocumentClick

SpecWalk == Init /\ [][NextWalk]_vars

----
\* Steps named by the claims.
IsNext(l) == l.op = "KeyDown" /\ (l.key = "ArrowDown" \/ (l.key = "Tab" /\ ~l.shift))
IsPrev(l) == l.op = "KeyDown" /\ (l.key = "ArrowUp" \/ (l.key = "Tab" /\ l.shift))
IsEscape(l) == l.op = "KeyDown" /\ l.key \in {"Esc", "Escape"}
IsCancel(l) == l.op = "ClickOutside" \/ IsEscape(l)
IsEnter(l) == l.op = "KeyDown" /\ l.key = "Enter"
SelectMessages(msgs) == {i \in 1..Len(msgs) : msgs[i].key = "UsernameSelect"}

\* The placeholder names the identity whose data is being fetched, the
\* active identity.
ActiveIs(name) == refresh_time = <<"getting PR data for user", name>>

\* C1: with n > 0 options, selectNext goes from null to 0 and from i to
\* (i+1) mod n, selectPrev from null to n-1 and from i to (i-1+n) mod n, and
\* the result lies in 0..n-1; with no options neither changes the highlight
\* or the options.
C1_NavigationWraps ==
  [][LET n == Len(available_options)
         i == current_option
     IN /\ (IsNext(last') /\ n > 0) =>
             /\ current_option' = (IF i = null_option THEN 0 ELSE (i + 1) % n)
             /\ current_option' \in 0..(n - 1)
        /\ (IsPrev(last') /\ n > 0) =>
             /\ current_option' = (IF i = null_option THEN n - 1 ELSE (i - 1 + n) % n)
             /\ current_option' \in 0..(n - 1)
        /\ ((IsNext(last') \/ IsPrev(last')) /\ n = 0) =>
             UNCHANGED <<current_option, available_options, popup_display, input_value>>
    ]_vars

\* ArrowDown has just put the highlight on the first of two options.
C1_Witness ==
  /\ last.op = "KeyDown" /\ last.key = "ArrowDown"
  /\ Len(available_options) = 2
  /\ current_option = 0

\* C2: current_option is null or an index of available_options, and with no
\* options the popup is hidden and nothing is highlighted.
C2_HighlightValid ==
  /\ current_option = null_option \/ current_option \in 0..(Len(available_options) - 1)
  /\ available_options = <<>> => (popup_display = "none" /\ current_option = null_option)

\* A one-element list has just replaced the options while the popup was
\* already showing; nothing is highlighted.
C2_Witness ==
  /\ last.op = "UsernameSuggestions" /\ last.open
  /\ Len(last.list) = 1 /\ Len(available_options) = 1
  /\ current_option = null_option

\* C3: a Cancel (Escape key or click outside) during an edit session puts
\* the snapshot taken at the start of the session back into the input.
C3_CancelRestores ==
  [][(IsCancel(last') /\ old_username # null) => input_value' = old_username]_vars

\* C4: a commit (Enter, or a click on an option) of the active identity
\* sends no UsernameSelect and leaves the dashboard and placeholder alone.
C4_NoRedundantSelect ==
  [][((IsEnter(last') /\ ActiveIs(input_value))
       \/ (last'.op = "ClickOption" /\ ActiveIs(last'.name))) =>
        /\ SelectMessages(sent') = {}
        /\ UNCHANGED <<main, refresh_time>>
    ]_vars

\* C5: Enter with the popup hidden and an input value that differs from the
\* active identity sends exactly one message, UsernameSelect of that value.
C5_EnterSendsOnce ==
  [][(IsEnter(last') /\ popup_display = "none"
        /\ \E name \in Names \ {input_value} : ActiveIs(name)) =>
        sent' = <<[key |-> "UsernameSelect", value |-> input_value]>>
    ]_vars

\* C6 as stated: when the replies to two outstanding queries arrive out of
\* order, after the later-arriving one (the reply to the earlier, stale
\* query) the options are those of that reply.
C6_LaterReplyWins ==
  (last.op = "UsernameSuggestions" /\ last.order = "stale") =>
    OptionNames(available_options) = last.list

\* C6 amended: after a reply that is not empty, whether it answers the
\* newest query or an earlier, stale one, the options are those of that
\* reply, nothing is highlighted and the popup shows.
C6_NonEmptyReplyWins ==
  (last.op = "UsernameSuggestions" /\ last.list # <<>>) =>
    /\ OptionNames(available_options) = last.list
    /\ current_option = null_option
    /\ popup_display = "flex"

\* The reply to a superseded query has just been applied.
C6_Witness ==
  /\ last.op = "UsernameSuggestions" /\ last.order = "stale"
  /\ last.list # <<>>
  /\ OptionNames(available_options) = last.list

\* C7: an empty UsernameSuggestions reply changes neither the popup, the
\* options, the highlight, the snapshot nor the input.
C7_EmptyReplyNoOp ==
  [][(last'.op = "UsernameSuggestions" /\ last'.list = <<>>) =>
        UNCHANGED <<popup_display, popup_innerHTML, available_options,
                    current_option, old_username, input_value>>
    ]_vars

\* An empty reply has arrived while the popup showed a highlighted option,
\* and both are still there.
C7_Witness ==
  /\ last.op = "UsernameSuggestions" /\ last.list = <<>> /\ last.open
  /\ popup_display = "flex"
  /\ current_option # null_option

\* C8: after SetUsername(newName) the popup is hidden, the snapshot is null,
\* the input shows newName and nothing was sent.
C8_SetUsername ==
  last.op = "SetUsername" =>
    /\ popup_display = "none"
    /\ old_username = null
    /\ input_value = last.name
    /\ sent = <<>>

\* SetUsername has arrived during an edit session with the popup showing.
C8_Witness ==
  /\ last.op = "SetUsername" /\ last.open /\ last.session
  /\ input_value = last.name

\* C9: a Cancel step sends nothing.
C9_CancelSendsNothing == IsCancel(last) => sent = <<>>

\* A click outside has cancelled an edit session while a query was in flight.
C9_Witness ==
  /\ last.op = "ClickOutside" /\ last.session
  /\ pending # <<>>

\* C10 as stated: a Cancel with no snapshot changes neither the input, the
\* popup's visibility, the options nor the highlight.
C10_CancelNoSessionNoOp ==
  [][(IsCancel(last') /\ old_username = null) =>
        UNCHANGED <<input_value, popup_display, available_options, current_option>>
    ]_vars

\* C10 amended: a Cancel with no snapshot changes neither the input, the
\* options nor the highlight and never shows the popup; a click outside
\* hides a popup that was showing.
C10_CancelNoSession ==
  [][(IsCancel(last') /\ old_username = null) =>
        /\ UNCHANGED <<input_value, available_options, current_option>>
        /\ popup_display = "none" => popup_display' = "none"
        /\ last'.op = "ClickOutside" => popup_display' = "none"
    ]_vars

\* A click outside has hidden a popup that showed without an edit session.
C10_Witness ==
  /\ last.op = "ClickOutside" /\ ~last.session /\ last.open
  /\ popup_display = "none"

\* C11: a malformed or unrecognized frame leaves the popup, the options, the
\* highlight and the snapshot as they were and sends nothing.
C11_BadFrameDiscarded ==
  [][last'.op \in {"BadFrame", "MalformedSuggestions"} =>
        /\ UNCHANGED <<popup_display, popup_innerHTML, available_options,
                       current_option, old_username>>
        /\ sent' = <<>>
    ]_vars

Queries(msgs) == SelectSeq(msgs, LAMBDA m : m.key = "UsernameSuggestions")
TheQuery == <<[key |-> "UsernameSuggestions", value |-> input_value]>>

\* C12: the events that focus the input (a click on it, the '/' shortcut)
\* and an edit of its text send exactly one query carrying the input's
\* value, and no other event sends a query.
C12_FocusOrEditQueries ==
  IF last.op \in {"ClickInput", "Slash", "Input"}
  THEN Queries(sent) = TheQuery
  ELSE Queries(sent) = <<>>

\* C13: a reply that is not empty, in whatever state it arrives, makes the
\* options exactly the received entries in the order received, none of them
\* marked, resets the highlight to null and shows the popup with them, also
\* when an option was highlighted as the reply arrived.
C13_ReplyReplacesOptions ==
  (last.op = "UsernameSuggestions" /\ last.list # <<>>) =>
    /\ Len(available_options) = Len(last.list)
    /\ \A i \in 1..Len(last.list) :
         available_options[i] = [name |-> last.list[i], ariaSelected |-> "false"]
    /\ current_option = null_option
    /\ popup_display = "flex"
    /\ popup_innerHTML = "options"

\* A reply of two different names arrived while an option was highlighted.
C13_Witness ==
  /\ last.op = "UsernameSuggestions"
  /\ last.highlighted
  /\ last.open
  /\ Len(last.list) = 2
  /\ last.list[1] # last.list[2]
  /\ current_option = null_option
  /\ OptionNames(available_options) = last.list

\* C14: whenever the popup is closed there are no options and no highlight,
\* so navigation in the closed state has nothing of an earlier popup to act
\* on.
C14_ClosedIsEmpty ==
  popup_display = "none" =>
    /\ available_options = <<>>
    /\ current_option = null_option

\* C15: the snapshot is null after every step that sends UsernameSelect,
\* after every Cancel (Escape or a click outside), after every SetUsername
\* and after every Reset.
C15_SnapshotCleared ==
  (\/ SelectMessages(sent) # {}
   \/ IsCancel(last)
   \/ last.op \in {"SetUsername", "ClickReset"}) =>
    old_username = null

\* C16: confirmSelect() with no highlight leaves the input text, the popup,
\* the snapshot and the messages sent as Cancel, close_popup(true), would
\* leave them from the same state; with a highlight it sends UsernameSelect
\* with the name of the highlighted option.
C16_SoftConfirmIsCancel ==
  [][last'.op = "ConfirmSoft" =>
        IF current_option = null_option
        THEN LET cancel == close_popup(Start, TRUE)
             IN /\ input_value' = cancel.input_value
                /\ popup_display' = cancel.popup_display
                /\ popup_innerHTML' = cancel.popup_innerHTML
                /\ old_username' = cancel.old_username
                /\ sent' = cancel.sent
        ELSE sent' = <<[key |-> "UsernameSelect",
                        value |-> available_options[current_option + 1].name]>>
    ]_vars

\* The target is the form, an option or a node nested in one of them.
Contained(path) == \E i \in 1..Len(path) : path[i] \in {"form", "option"}

\* The form or the option is the target or one of its first MaxWalk - 1
\* ancestors.
ContainedNear(path) ==
  \E i \in 1..Len(path) : i <= MaxWalk /\ path[i] \in {"form", "option"}

\* C17 as stated: for a click target at any depth the document's click
\* listener runs Cancel exactly if the target is neither inside the form
\* nor inside an option.
C17_WalkIsContainment ==
  last.op = "DocumentClick" =>
    (last.key = "close_popup" <=> ~Contained(last.list))

\* C17: the document's click listener runs Cancel exactly if neither the
\* target nor any of its first MaxWalk - 1 ancestors is the form or an
\* option; a target nested deeper inside the form or an option is taken
\* for a click outside.
C17_WalkIsNearContainment ==
  last.op = "DocumentClick" =>
    /\ last.key = "close_popup" <=> ~ContainedNear(last.list)
    /\ last.key = "close_popup" => (popup_display = "none" /\ old_username = null)

\* A click ten levels down in the form cancelled an edit.
C17_Witness ==
  /\ last.op = "DocumentClick"
  /\ last.list = Path("form", MaxWalk)
  /\ last.key = "close_popup"
  /\ last.session
  /\ last.open
  /\ popup_display = "none"

Marked == {i \in 1..Len(available_options) : available_options[i].ariaSelected = "true"}
Rendered == popup_display = "flex" /\ popup_innerHTML = "options"

\* C18 as stated: while options are rendered exactly one of them is marked
\* as selected, the one at current_option.
C18_ExactlyOneMarked ==
  Rendered => (Cardinality(Marked) = 1 /\ Marked = {current_option + 1})

\* C18: while options are rendered at most one of them is marked as
\* selected: the one at current_option when current_option is not null, and
\* none when it is null, as it is from a reply until the first navigation.
C18_MarkedIsHighlight ==
  Rendered =>
    Marked = (IF current_option = null_option THEN {} ELSE {current_option + 1})

\* The highlight moved from the first of two rendered options to the second.
C18_Witness ==
  /\ Rendered
  /\ IsNext(last)
  /\ Len(available_options) = 2
  /\ current_option = 1
  /\ available_options[1].ariaSelected = "false"
  /\ available_options[2].ariaSelected = "true"

\* C19 as stated: whenever the popup is visible an edit session is open.
C19_PopupHasSession ==
  popup_display = "flex" => old_username # null

\* C19: the popup is visible without an edit session only through a reply
\* that is not empty and arrives while no session is open, such as the
\* reply to a query sent before the popup was closed, which opens the popup
\* again; a session open under a visible popup stays open until the popup
\* is closed.
C19_SessionlessPopupByReply ==
  [][(popup_display' = "flex" /\ old_username' = null) =>
        \/ /\ last'.op = "UsernameSuggestions"
           /\ last'.list # <<>>
           /\ old_username = null
        \/ /\ popup_display = "flex"
           /\ old_username = null
    ]_vars

\* After the popup was closed, the reply to an earlier query opened it
\* with no snapshot.
C19_Witness ==
  /\ popup_display = "flex"
  /\ old_username = null
  /\ last.op = "UsernameSuggestions"
  /\ ~last.open
  /\ ~last.session
  /\ pending # <<>>

\* C20: a UsernameSelect message carries the text the input held when Enter
\* was pressed, or is sent by a click on an option and carries a name of
\* the reply applied last; a name found only in an earlier reply is never
\* sent.
C20_SelectedNameIsCurrent ==
  [][\A i \in SelectMessages(sent') :
        \/ IsEnter(last') /\ sent'[i].value = input_value
        \/ /\ last'.op = "ClickOption"
           /\ \E j \in 1..Len(applied) : applied[j] = sent'[i].value
    ]_vars

\* The second option of the reply applied last was clicked and its name
\* sent.
C20_Witness ==
  /\ last.op = "ClickOption"
  /\ Len(applied) = 2
  /\ applied[1] # applied[2]
  /\ sent = <<[key |-> "UsernameSelect", value |-> applied[2]]>>

====
